---- MODULE Spec2Model ----
(***************************************************************************)
(* The two collectives of src/lwgrp_ring_ops.c run by the members of one   *)
(* lwgrp_ring: lwgrp_ring_split_bin and lwgrp_ring_alltoallv_linear.       *)
(*                                                                         *)
(* A process is named by its position in the input ring (its group_rank);  *)
(* its transport rank (comm_rank) is a different number.  MPI is modelled  *)
(* by one FIFO queue per ordered pair of transport ranks: every exchange   *)
(* uses the one tag LWGRP_MSG_TAG_0 on one communicator, so the k-th       *)
(* receive a process posts for a source matches the k-th message that      *)
(* source sent to it.  A nonblocking send deposits its message when it is  *)
(* posted; MPI_Waitall returns once every posted receive has its message.  *)
(* Each process therefore takes one step per MPI_Waitall: the code from    *)
(* the previous suspension point up to and including the next posts.       *)
(***************************************************************************)
EXTENDS Integers, Sequences, FiniteSets, TLC

\* ---- bounds of the model
MaxN    == 4   \* largest group_size of the input ring
NumBins == 2   \* the num_bins argument of lwgrp_ring_split_bin

\* ---- program constants
\* lwgrp.h is not part of the sources either
LWGRP_SUCCESS == 0
\* mpi.h is not part of the sources: any value that is no rank will do
MPI_PROC_NULL == -1
INDEX_COUNT   == 0
INDEX_CLOSEST == 1

VARIABLES
  ranks,            \* in->group_size / group->group_size
  open,             \* whether the input is an open chain (end neighbours MPI_PROC_NULL)
  mem,              \* per process: whether lwgrp_malloc returns a block
  ret,              \* per process: <<>> until the call returns, then <<return value>>
  junk,             \* the word the freshly allocated scratch block holds
  my_bin,           \* my_bin argument of every process
  pc,               \* "start", "wait" (inside MPI_Waitall), "done" (returned)
  dist,
  left_rank, right_rank,
  my_left, my_right,
  send_left_bins, recv_left_bins, send_right_bins, recv_right_bins,
  left_stamp, right_stamp,   \* value of dist when each receive buffer was last written, 0 = never
  out,              \* the out descriptor of every process
  layout,           \* the counts and displacements the callers of alltoallv_linear pass
  src, dst, src_next, dst_next,
  recvbuf,
  sent, rcvd,       \* per process: the dst of every payload send, the src of every payload receive posted
  chan              \* messages in flight: chan[<<from, to>>], transport ranks

vars == <<ranks, open, mem, ret, junk, my_bin, pc, dist, left_rank, right_rank, my_left, my_right,
          send_left_bins, recv_left_bins, send_right_bins, recv_right_bins,
          left_stamp, right_stamp, out, layout, src, dst, src_next, dst_next,
          recvbuf, sent, rcvd, chan>>

splitVars == <<my_bin, left_rank, right_rank, my_left, my_right,
               send_left_bins, recv_left_bins, send_right_bins, recv_right_bins,
               left_stamp, right_stamp, out>>

a2aVars == <<layout, src, dst, src_next, dst_next, recvbuf, sent, rcvd>>

\* ---- the input ring
Procs == 0 .. (ranks - 1)

\* transport rank of the process at position i of a ring of n: the members are
\* ranks 1..n of the communicator in descending order, rank 0 is no member
CommRankOf(i, n) == n - i

\* the lwgrp_ring every process holds on entry: neighbours wrap around
InRing(i, n) ==
  [ comm_rank  |-> CommRankOf(i, n),
    comm_left  |-> CommRankOf((i + n - 1) % n, n),
    comm_right |-> CommRankOf((i + 1) % n, n),
    group_rank |-> i,
    group_size |-> n ]

\* the descriptor of an open chain: the head has no left neighbour, the tail
\* no right neighbour
InChain(i, n) ==
  [ comm_rank  |-> CommRankOf(i, n),
    comm_left  |-> IF i = 0 THEN MPI_PROC_NULL ELSE CommRankOf(i - 1, n),
    comm_right |-> IF i = n - 1 THEN MPI_PROC_NULL ELSE CommRankOf(i + 1, n),
    group_rank |-> i,
    group_size |-> n ]

in(i) == IF open THEN InChain(i, ranks) ELSE InRing(i, ranks)

\* ---- lwgrp_ring_split_bin: indices and buffers
my_bin_index(i) == 2 * my_bin[i]
rank_index      == 2 * NumBins
elements        == 2 * NumBins + 1
Cells           == 0 .. (elements - 1)

\* the scratch block as lwgrp_malloc returns it
FreshBuf == [ k \in Cells |-> junk ]

\* lines 69-82: counts 0 and closest MPI_PROC_NULL, own bin (1, comm_rank);
\* lines 78-81 are not bounded by num_bins, so they win over the last cell
SeedBuf(i) ==
  [ k \in Cells |->
      IF my_bin[i] >= 0 /\ k = my_bin_index(i) + INDEX_COUNT THEN 1
      ELSE IF my_bin[i] >= 0 /\ k = my_bin_index(i) + INDEX_CLOSEST THEN in(i).comm_rank
      ELSE IF k = rank_index THEN junk
      ELSE IF k % 2 = INDEX_COUNT THEN 0
      ELSE MPI_PROC_NULL ]

\* lines 62-65 and 78-81: each receive buffer starts where its send buffer
\* ends, so a cell of a send buffer at index elements + k is cell k of the
\* receive buffer behind it
SeedRecv(i) ==
  [ k \in Cells |->
      IF my_bin[i] >= 0 /\ elements + k = my_bin_index(i) + INDEX_COUNT THEN 1
      ELSE IF my_bin[i] >= 0 /\ elements + k = my_bin_index(i) + INDEX_CLOSEST
           THEN in(i).comm_rank
      ELSE junk ]

\* lines 62-65: a buffer of the block followed by what lies behind it
Ext(buf, behind) ==
  [ k \in 0 .. (2 * elements - 1) |->
      IF k < elements THEN buf[k] ELSE behind[k - elements] ]

\* ---- the transport
Send(ch, from, to, msg) ==
  IF to = MPI_PROC_NULL THEN ch
  ELSE [ ch EXCEPT ![<<from, to>>] = Append(@, msg) ]

\* number of receives posted for source s among the sources srcs (a sequence)
Posted(srcs, s) == Cardinality({ k \in 1 .. Len(srcs) : srcs[k] = s })

\* MPI_Waitall can return: every posted receive has its message
CanComplete(ch, me, srcs) ==
  \A k \in 1 .. Len(srcs) :
     srcs[k] # MPI_PROC_NULL => Len(ch[<<srcs[k], me>>]) >= Posted(srcs, srcs[k])

\* position among the receives posted for the same source of the k-th receive
Slot(srcs, k) == Cardinality({ j \in 1 .. k : srcs[j] = srcs[k] })

\* what the k-th posted receive delivers; old when the source is MPI_PROC_NULL
Received(ch, me, srcs, k, old) ==
  IF srcs[k] = MPI_PROC_NULL THEN old
  ELSE ch[<<srcs[k], me>>][Slot(srcs, k)]

RECURSIVE DropN(_, _)
DropN(s, n) == IF n = 0 THEN s ELSE DropN(Tail(s), n - 1)

\* the queues once the receives of srcs are matched
Consume(ch, me, srcs) ==
  [ pr \in DOMAIN ch |->
      IF pr[2] = me THEN DropN(ch[pr], Posted(srcs, pr[1])) ELSE ch[pr] ]

\* ---- lwgrp_ring_split_bin: one round
\* lines 101-110: the two buffers as sent, each with the opposite neighbour in its last cell
RightGoing(buf, l) == [ buf EXCEPT ![rank_index] = l ]
LeftGoing(buf, r)  == [ buf EXCEPT ![rank_index] = r ]

PostSplit(ch, me, sr, sl, l, r) ==
  Send(Send(ch, me, r, RightGoing(sr, l)), me, l, LeftGoing(sl, r))

\* variant of MergeBins: the counts are added without the wrap guard
MergeBins_NoGuard(send, recv, unwrapped) ==
  [ k \in Cells |->
      IF k = rank_index THEN send[k]
      ELSE IF k % 2 = INDEX_COUNT
           THEN send[k] + recv[k]
           ELSE (IF send[k] = MPI_PROC_NULL THEN recv[k] ELSE send[k]) ]

\* variant of MergeBins: a closest rank that arrives replaces the one held
MergeBins_Overwrite(send, recv, unwrapped) ==
  [ k \in Cells |->
      IF k = rank_index THEN send[k]
      ELSE IF k % 2 = INDEX_COUNT
           THEN (IF unwrapped THEN send[k] + recv[k] ELSE send[k])
           ELSE (IF recv[k] # MPI_PROC_NULL THEN recv[k] ELSE send[k]) ]

\* lines 128-139 and 142-153: merge a received buffer into a send buffer
MergeBins(send, recv, unwrapped) ==
  [ k \in Cells |->
      IF k = rank_index THEN send[k]
      ELSE IF k % 2 = INDEX_COUNT
           THEN (IF unwrapped THEN send[k] + recv[k] ELSE send[k])
           ELSE (IF send[k] = MPI_PROC_NULL THEN recv[k] ELSE send[k]) ]

\* variant of Snapshot: not sticky, a later round overwrites the neighbour
Snapshot_Last(i, mine, recv) ==
  IF my_bin[i] >= 0
  THEN recv[my_bin_index(i) + INDEX_CLOSEST]
  ELSE mine

\* lines 117-119 and 123-125: first closest of our bin seen in a direction
Snapshot(i, mine, recv) ==
  IF mine = MPI_PROC_NULL /\ my_bin[i] >= 0
  THEN recv[my_bin_index(i) + INDEX_CLOSEST]
  ELSE mine

\* lwgrp_ring_set_null
RingSetNull ==
  [ comm_rank  |-> MPI_PROC_NULL,
    comm_left  |-> MPI_PROC_NULL,
    comm_right |-> MPI_PROC_NULL,
    group_rank |-> MPI_PROC_NULL,
    group_size |-> 0 ]

\* the caller's out descriptor before the call
Unset ==
  [ comm_rank  |-> junk,
    comm_left  |-> junk,
    comm_right |-> junk,
    group_rank |-> junk,
    group_size |-> junk ]

\* variant of OnlyRank: the ring of one process is not special-cased
OnlyRank_Plain(i, m) == m

\* lines 161-165: a ring of one process is its own neighbour on both sides
OnlyRank(i, m) == IF ranks = 1 THEN in(i).comm_rank ELSE m

\* variant of OutRing: group_rank is taken from the count to the right
OutRing_Swapped(i, ml, mr, sr, sl) ==
  LET count_left  == sr[my_bin_index(i) + INDEX_COUNT] - 1
      count_right == sl[my_bin_index(i) + INDEX_COUNT] - 1
  IN IF my_bin[i] >= 0
     THEN [ comm_rank  |-> in(i).comm_rank,
            comm_left  |-> ml,
            comm_right |-> mr,
            group_rank |-> count_right,
            group_size |-> count_left + count_right + 1 ]
     ELSE RingSetNull

\* variant of OutRing: no empty group is created, out is left as it was
OutRing_NoNull(i, ml, mr, sr, sl) ==
  LET count_left  == sr[my_bin_index(i) + INDEX_COUNT] - 1
      count_right == sl[my_bin_index(i) + INDEX_COUNT] - 1
  IN IF my_bin[i] >= 0
     THEN [ comm_rank  |-> in(i).comm_rank,
            comm_left  |-> ml,
            comm_right |-> mr,
            group_rank |-> count_left,
            group_size |-> count_left + count_right + 1 ]
     ELSE out[i]

\* lines 167-184: the out descriptor from the final scan state
OutRing(i, ml, mr, sr, sl) ==
  LET count_left  == sr[my_bin_index(i) + INDEX_COUNT] - 1
      count_right == sl[my_bin_index(i) + INDEX_COUNT] - 1
  IN IF my_bin[i] >= 0
     THEN [ comm_rank  |-> in(i).comm_rank,
            comm_left  |-> ml,
            comm_right |-> mr,
            group_rank |-> count_left,
            group_size |-> count_left + count_right + 1 ]
     ELSE RingSetNull

\* variant of LoopTest: one round too many
LoopTest_Le(d) == d <= ranks

\* line 97: the loop test
LoopTest(d) == d < ranks

\* lines 97-113 or 161-189 from the loop test on: post the next round or return
SplitContinue(i, d, l, r, ml, mr, sr, sl, ch) ==
  /\ dist' = [ dist EXCEPT ![i] = d ]
  /\ left_rank' = [ left_rank EXCEPT ![i] = l ]
  /\ right_rank' = [ right_rank EXCEPT ![i] = r ]
  /\ IF LoopTest(d)
     THEN /\ send_right_bins' = [ send_right_bins EXCEPT ![i] = RightGoing(sr, l) ]
          /\ send_left_bins' = [ send_left_bins EXCEPT ![i] = LeftGoing(sl, r) ]
          /\ chan' = PostSplit(ch, in(i).comm_rank, sr, sl, l, r)
          /\ my_left' = [ my_left EXCEPT ![i] = ml ]
          /\ my_right' = [ my_right EXCEPT ![i] = mr ]
          /\ pc' = [ pc EXCEPT ![i] = "wait" ]
          /\ out' = out
          /\ ret' = ret
     ELSE /\ send_right_bins' = [ send_right_bins EXCEPT ![i] = sr ]
          /\ send_left_bins' = [ send_left_bins EXCEPT ![i] = sl ]
          /\ chan' = ch
          /\ ret' = [ ret EXCEPT ![i] = <<LWGRP_SUCCESS>> ]
          /\ my_left' = [ my_left EXCEPT ![i] = OnlyRank(i, ml) ]
          /\ my_right' = [ my_right EXCEPT ![i] = OnlyRank(i, mr) ]
          /\ pc' = [ pc EXCEPT ![i] = "done" ]
          /\ out' = [ out EXCEPT ![i] =
                        OutRing(i, OnlyRank(i, ml), OnlyRank(i, mr), sr, sl) ]

\* lines 55-70 with bins = NULL: there is no return, line 70 stores through
\* the null pointer
NullStore == { "fault", "mapped" }

\* lines 44-113: entry of lwgrp_ring_split_bin up to the first MPI_Waitall
SplitStart(i) ==
  /\ pc[i] = "start"
  /\ \E o \in IF mem[i] THEN { "mapped" } ELSE NullStore :
        IF o = "fault"
        THEN /\ pc' = [ pc EXCEPT ![i] = "fault" ]
             /\ UNCHANGED <<ret, dist, left_rank, right_rank, my_left, my_right,
                            send_left_bins, send_right_bins, recv_left_bins,
                            recv_right_bins, out, chan>>
        ELSE /\ SplitContinue(i, 1, in(i).comm_left, in(i).comm_right,
                              MPI_PROC_NULL, MPI_PROC_NULL, SeedBuf(i), SeedBuf(i), chan)
             /\ recv_left_bins' = [ recv_left_bins EXCEPT ![i] = SeedRecv(i) ]
             /\ recv_right_bins' = [ recv_right_bins EXCEPT ![i] = SeedRecv(i) ]
  /\ UNCHANGED <<ranks, open, mem, junk, my_bin, left_stamp, right_stamp, a2aVars>>

\* lines 113-159 and on: MPI_Waitall returns, merge, advance, next round or return
SplitRound(i) ==
  LET me   == in(i).comm_rank
      srcs == <<left_rank[i], right_rank[i]>>
      rl   == Received(chan, me, srcs, 1, recv_left_bins[i])
      rr   == Received(chan, me, srcs, 2, recv_right_bins[i])
      rank == in(i).group_rank
      sr   == MergeBins(send_right_bins[i], rl, rank - dist[i] >= 0)
      sl   == MergeBins(send_left_bins[i], rr, rank + dist[i] < ranks)
  IN /\ pc[i] = "wait"
     /\ CanComplete(chan, me, srcs)
     /\ recv_left_bins' = [ recv_left_bins EXCEPT ![i] = rl ]
     /\ recv_right_bins' = [ recv_right_bins EXCEPT ![i] = rr ]
     /\ left_stamp' = [ left_stamp EXCEPT ![i] =
                          IF left_rank[i] = MPI_PROC_NULL THEN @ ELSE dist[i] ]
     /\ right_stamp' = [ right_stamp EXCEPT ![i] =
                          IF right_rank[i] = MPI_PROC_NULL THEN @ ELSE dist[i] ]
     /\ SplitContinue(i, 2 * dist[i], rl[rank_index], rr[rank_index],
                      Snapshot(i, my_left[i], Ext(rl, send_right_bins[i])),
                      Snapshot(i, my_right[i], Ext(rr, FreshBuf)),
                      sr, sl, Consume(chan, me, srcs))
     /\ UNCHANGED <<ranks, open, mem, junk, my_bin, a2aVars>>

\* ---- lwgrp_ring_alltoallv_linear: the arguments
MaxCount == 2   \* largest sendcounts entry

\* transport ranks of the communicator: the members and rank 0
World == 0 .. ranks

Layouts == [ counts : { "ones", "mixed" }, sd : { "asc", "desc" }, rd : { "asc", "desc" } ]

\* elements the process of transport rank s sends to transport rank d
CountFor(s, d) ==
  IF layout.counts = "ones" THEN 1 ELSE (s + 2 * d) % (MaxCount + 1)

Displ(how, r) == IF how = "asc" THEN r * MaxCount ELSE (ranks - r) * MaxCount

sendcounts(i) == [ r \in World |-> CountFor(in(i).comm_rank, r) ]
senddispls(i) == [ r \in World |-> Displ(layout.sd, r) ]
recvcounts(i) == [ r \in World |-> CountFor(r, in(i).comm_rank) ]
recvdispls(i) == [ r \in World |-> Displ(layout.rd, r) ]

BufIndex == 0 .. ((ranks + 1) * MaxCount - 1)

\* every element of every send buffer is a different positive number
sendbuf(i) ==
  [ k \in BufIndex |-> in(i).comm_rank * ((ranks + 1) * MaxCount) + k + 1 ]

\* lwgrp_type_dtbuf_from_dtbuf: the buffer from element displ on
lwgrp_type_dtbuf_from_dtbuf(buf, displ) ==
  [ k \in 0 .. (Cardinality(DOMAIN buf) - 1 - displ) |-> buf[displ + k] ]

\* lines 221-227: the array element at index r; an index that is no rank of the
\* communicator reads the word that happens to lie there
At(arr, r) == IF r \in DOMAIN arr THEN arr[r] ELSE junk

\* lines 226-228: the count elements at send_ptr, as sent
Payload(i, d) ==
  LET send_ptr   == lwgrp_type_dtbuf_from_dtbuf(sendbuf(i), At(senddispls(i), d))
      send_count == At(sendcounts(i), d)
  IN [ k \in 1 .. send_count |-> send_ptr[k - 1] ]

\* lines 221-223: the receive buffer once the message has landed at recv_ptr
Landed(buf, displ, data) ==
  [ k \in DOMAIN buf |->
      IF k >= displ /\ k < displ + Len(data) THEN data[k - displ + 1] ELSE buf[k] ]

\* lines 231-232: the int an address receive leaves in its variable
Address(old, data) == IF Len(data) = 0 THEN old ELSE data[1]

\* variant of PostA2A: the two address sends are posted in the other order
PostA2A_DstFirst(ch, i, s, d, k) ==
  LET me == in(i).comm_rank
      c1 == Send(ch, me, d, [ kind |-> "data", round |-> k, data |-> Payload(i, d) ])
      c2 == Send(c1, me, s, [ kind |-> "dst", round |-> k, data |-> <<d>> ])
  IN Send(c2, me, d, [ kind |-> "src", round |-> k, data |-> <<s>> ])

\* lines 228, 233, 234: the three sends of a round, in the order posted
PostA2A(ch, i, s, d, k) ==
  LET me == in(i).comm_rank
      c1 == Send(ch, me, d, [ kind |-> "data", round |-> k, data |-> Payload(i, d) ])
      c2 == Send(c1, me, d, [ kind |-> "src", round |-> k, data |-> <<s>> ])
  IN Send(c2, me, s, [ kind |-> "dst", round |-> k, data |-> <<d>> ])

\* variant of A2ALoopTest: the last round is left out
A2ALoopTest_Short(k) == k < ranks - 1

\* line 219: the loop test
A2ALoopTest(k) == k < ranks

\* lines 240-241: the partners of the next round
NextPartners(sn, dn) == <<sn, dn>>

\* lines 221-234: the ranks MPI accepts as source and destination
ValidRank(s, d) == { s, d } \subseteq (World \cup { MPI_PROC_NULL })

\* lines 219-237 or 247 from the loop test on: post the next round or return
A2AContinue(i, k, s, d, ch) ==
  /\ dist' = [ dist EXCEPT ![i] = k ]
  /\ src' = [ src EXCEPT ![i] = s ]
  /\ dst' = [ dst EXCEPT ![i] = d ]
  /\ IF A2ALoopTest(k) /\ ~ ValidRank(s, d)
     THEN \* a rank that is not of the communicator: MPI_ERR_RANK, the job aborts
          /\ chan' = ch
          /\ pc' = [ pc EXCEPT ![i] = "error" ]
          /\ UNCHANGED <<ret, sent, rcvd>>
     ELSE IF A2ALoopTest(k)
     THEN /\ chan' = PostA2A(ch, i, s, d, k)
          /\ sent' = [ sent EXCEPT ![i] = Append(@, d) ]
          /\ rcvd' = [ rcvd EXCEPT ![i] = Append(@, s) ]
          /\ pc' = [ pc EXCEPT ![i] = "wait" ]
          /\ ret' = ret
     ELSE /\ chan' = ch
          /\ ret' = [ ret EXCEPT ![i] = <<0>> ]
          /\ UNCHANGED <<sent, rcvd>>
          /\ pc' = [ pc EXCEPT ![i] = "done" ]

\* lines 207-237: entry of lwgrp_ring_alltoallv_linear up to the first MPI_Waitall
A2AStart(i) ==
  /\ pc[i] = "start"
  /\ A2AContinue(i, 0, in(i).comm_left, in(i).comm_right, chan)
  /\ UNCHANGED <<ranks, open, mem, junk, splitVars, layout, src_next, dst_next, recvbuf>>

\* lines 237-245 and on: MPI_Waitall returns, take the new partners, next round or return
A2ARound(i) ==
  LET me   == in(i).comm_rank
      srcs == <<src[i], src[i], dst[i]>>
      m1   == Received(chan, me, srcs, 1, [ data |-> <<>> ])
      m2   == Received(chan, me, srcs, 2, [ data |-> <<src_next[i]>> ])
      m3   == Received(chan, me, srcs, 3, [ data |-> <<dst_next[i]>> ])
      sn   == Address(src_next[i], m2.data)
      dn   == Address(dst_next[i], m3.data)
      nxt  == NextPartners(sn, dn)
  IN /\ pc[i] = "wait"
     /\ CanComplete(chan, me, srcs)
     /\ UNCHANGED <<ranks, open, mem, junk, splitVars, layout>>
     /\ IF \/ Len(m1.data) > At(recvcounts(i), src[i])
           \/ Len(m2.data) > 1
           \/ Len(m3.data) > 1
        THEN \* a message longer than its receive: MPI_ERR_TRUNCATE, the job aborts
             /\ pc' = [ pc EXCEPT ![i] = "error" ]
             /\ chan' = Consume(chan, me, srcs)
             /\ UNCHANGED <<ret, dist, src, dst, src_next, dst_next, recvbuf, sent, rcvd>>
        ELSE /\ recvbuf' = [ recvbuf EXCEPT ![i] =
                               Landed(@, At(recvdispls(i), src[i]), m1.data) ]
             /\ src_next' = [ src_next EXCEPT ![i] = sn ]
             /\ dst_next' = [ dst_next EXCEPT ![i] = dn ]
             /\ A2AContinue(i, dist[i] + 1, nxt[1], nxt[2], Consume(chan, me, srcs))

\* ---- the initial states
JunkWords == { MPI_PROC_NULL, 0 }

\* the locals and buffers of a process that has not entered a collective yet
Fresh ==
  /\ pc = [ i \in Procs |-> "start" ]
  /\ ret = [ i \in Procs |-> <<>> ]
  /\ dist = [ i \in Procs |-> junk ]
  /\ left_rank = [ i \in Procs |-> junk ]
  /\ right_rank = [ i \in Procs |-> junk ]
  /\ my_left = [ i \in Procs |-> junk ]
  /\ my_right = [ i \in Procs |-> junk ]
  /\ send_left_bins = [ i \in Procs |-> FreshBuf ]
  /\ recv_left_bins = [ i \in Procs |-> FreshBuf ]
  /\ send_right_bins = [ i \in Procs |-> FreshBuf ]
  /\ recv_right_bins = [ i \in Procs |-> FreshBuf ]
  /\ left_stamp = [ i \in Procs |-> 0 ]
  /\ right_stamp = [ i \in Procs |-> 0 ]
  /\ out = [ i \in Procs |-> Unset ]
  /\ src = [ i \in Procs |-> junk ]
  /\ dst = [ i \in Procs |-> junk ]
  /\ src_next = [ i \in Procs |-> junk ]
  /\ dst_next = [ i \in Procs |-> junk ]
  /\ recvbuf = [ i \in Procs |-> [ k \in BufIndex |-> junk ] ]
  /\ sent = [ i \in Procs |-> <<>> ]
  /\ rcvd = [ i \in Procs |-> <<>> ]
  /\ chan = [ pr \in World \X World |-> <<>> ]

\* every member of a ring of 1..MaxN processes calls lwgrp_ring_split_bin
Init ==
  /\ ranks \in 1 .. MaxN
  /\ open = FALSE
  /\ mem = [ i \in Procs |-> TRUE ]
  /\ junk \in JunkWords
  /\ my_bin \in [ Procs -> -1 .. (NumBins - 1) ]
  /\ layout = [ counts |-> "ones", sd |-> "asc", rd |-> "asc" ]
  /\ Fresh

Next ==
  \/ \E i \in Procs : SplitStart(i)
  \/ \E i \in Procs : SplitRound(i)

Spec == Init /\ [][Next]_vars

\* every member of a ring of 1..MaxN processes calls lwgrp_ring_alltoallv_linear
InitA2A ==
  /\ ranks \in 1 .. MaxN
  /\ open = FALSE
  /\ mem = [ i \in Procs |-> TRUE ]
  /\ junk \in JunkWords
  /\ my_bin = [ i \in Procs |-> 0 ]
  /\ layout \in Layouts
  /\ Fresh

NextA2A ==
  \/ \E i \in Procs : A2AStart(i)
  \/ \E i \in Procs : A2ARound(i)

SpecA2A == InitA2A /\ [][NextA2A]_vars

\* fairness: the processes run, and an MPI_Waitall whose receives all have
\* their message returns (MPI's progress rule), so a step that can be taken
\* is taken
LiveSpec == Spec /\ WF_vars(Next)

\* ---- the claims about lwgrp_ring_split_bin
AllDone    == \A i \in Procs : pc[i] = "done"
SameBin(i) == { j \in Procs : my_bin[j] = my_bin[i] }
Binned     == { i \in Procs : my_bin[i] >= 0 }
LeftOf(i)  == { j \in SameBin(i) : j < i }

\* rounds a process has completed: dist is doubled once per round, from 1
RECURSIVE Log2(_)
Log2(d) == IF d <= 1 THEN 0 ELSE 1 + Log2(d \div 2)
RECURSIVE CeilLog2(_)
CeilLog2(n) == IF n <= 1 THEN 0 ELSE 1 + CeilLog2((n + 1) \div 2)

\* C1 (split completeness): once every process has returned, every process
\* with my_bin >= 0 holds a group_size equal to the number of processes of the
\* input ring that declared its bin, and each group_rank 0..size-1 is held by
\* exactly one of them.
C1_SplitComplete ==
  AllDone =>
    \A i \in Binned :
      /\ out[i].group_size = Cardinality(SameBin(i))
      /\ \A r \in 0 .. (Cardinality(SameBin(i)) - 1) :
           Cardinality({ j \in SameBin(i) : out[j].group_rank = r }) = 1

C1_Witness ==
  /\ AllDone
  /\ ranks >= 3
  /\ \E i, j, k \in Procs :
       i # j /\ my_bin[i] = my_bin[j] /\ my_bin[i] >= 0 /\ my_bin[k] # my_bin[i]

\* C2 (split order preservation): a returned process's group_rank is the
\* number of same-bin processes strictly to its left in the input ring, so
\* same-bin processes keep their input order.
C2_OrderPreserved ==
  \A i \in Binned :
    pc[i] = "done" =>
      /\ out[i].group_rank = Cardinality(LeftOf(i))
      /\ \A j \in SameBin(i) :
           (pc[j] = "done" /\ j < i) => out[j].group_rank < out[i].group_rank

C2_Witness ==
  /\ AllDone
  /\ \E i, j, k \in Procs :
       i < k /\ k < j /\ my_bin[i] = my_bin[j] /\ my_bin[i] >= 0 /\ my_bin[k] # my_bin[i]

\* the process of i's output group at group_rank r
AtRank(i, r) == { j \in SameBin(i) : out[j].group_rank = r }

C4_EmptyBin ==
  \A i \in Procs :
    (pc[i] = "done" /\ my_bin[i] < 0) =>
      /\ out[i].group_size = 0
      /\ out[i].comm_left = MPI_PROC_NULL
      /\ out[i].comm_right = MPI_PROC_NULL
      /\ Log2(dist[i]) = CeilLog2(ranks)
      /\ \A j \in Binned : pc[j] = "done" => dist[j] = dist[i]

C4_Witness ==
  /\ AllDone
  /\ ranks >= 3
  /\ \E i, j, k \in Procs :
       i < k /\ k < j /\ my_bin[k] < 0 /\ my_bin[i] = my_bin[j] /\ my_bin[i] >= 0
                      /\ out[i].group_size = 2

\* C8 (split round count and completion): every process eventually returns,
\* and a returned process has completed exactly ceil(log2(ranks)) rounds,
\* whatever the bins; no message stays unreceived.
RoundsExact == \A i \in Procs : pc[i] = "done" => Log2(dist[i]) = CeilLog2(ranks)

\* once all have returned every message sent has been received: no send is
\* left that a synchronous MPI_Isend would still be waiting on
Drained == AllDone => \A pr \in DOMAIN chan : chan[pr] = <<>>

C8_SplitTerminates == [] (RoundsExact /\ Drained) /\ <> AllDone

C8_Witness ==
  /\ AllDone
  /\ ranks = 3
  /\ \A i \in Procs : dist[i] = 4

\* C9 (singleton split): on a ring of one process with my_bin >= 0 no
\* exchange round is executed (nothing is sent, nothing received) and the
\* output is a group of size 1, rank 0, with both neighbours the process's
\* own transport rank.
C9_Singleton ==
  (ranks = 1 /\ pc[0] = "done" /\ my_bin[0] >= 0) =>
    /\ out[0] = [ comm_rank  |-> in(0).comm_rank,
                  comm_left  |-> in(0).comm_rank,
                  comm_right |-> in(0).comm_rank,
                  group_rank |-> 0,
                  group_size |-> 1 ]
    /\ dist[0] = 1
    /\ left_stamp[0] = 0 /\ right_stamp[0] = 0
    /\ \A pr \in DOMAIN chan : chan[pr] = <<>>

C9_Witness == ranks = 1 /\ pc[0] = "done" /\ my_bin[0] >= 0

\* ---- the claims about lwgrp_ring_alltoallv_linear
\* fairness: as for LiveSpec
LiveA2A == SpecA2A /\ WF_vars(NextA2A)

Me(i) == in(i).comm_rank

\* the cells of d's receive slot for s hold the cells of s's send slot for d
Delivered(s, d) ==
  \A k \in 0 .. (sendcounts(s)[Me(d)] - 1) :
     recvbuf[d][recvdispls(d)[Me(s)] + k] = sendbuf(s)[senddispls(s)[Me(d)] + k]

\* rounds in which process s posted its payload send to process d
RoundsTo(s, d) == { k \in 1 .. Len(sent[s]) : sent[s][k] = Me(d) }

\* C5 (all-to-all delivery): once every member has returned, for every
\* ordered pair (s, d) of members, s = d included, the sendcounts[d] elements
\* at senddispls[d] of s's send buffer are at recvdispls[s] of d's receive
\* buffer.
C5_Delivery ==
  AllDone => \A s, d \in Procs : Delivered(s, d)

\* C6 (each pair once): never is an ordered pair (s, d) used for a payload
\* transfer in two rounds, and once every member has returned every pair has
\* been used in exactly one round, the same round at the sender (its dst) and
\* at the receiver (its src).
C6_EachPairOnce ==
  \A s, d \in Procs :
    /\ Cardinality(RoundsTo(s, d)) <= 1
    /\ AllDone =>
         /\ Cardinality(RoundsTo(s, d)) = 1
         /\ \A k \in RoundsTo(s, d) : rcvd[d][k] = Me(s)

\* C7 (all-to-all rounds and completion): every process eventually returns,
\* and a returned process has gone through exactly ranks wait-all cycles; no
\* message stays unreceived.
A2ARoundsExact ==
  \A i \in Procs :
    pc[i] = "done" => dist[i] = ranks /\ Len(sent[i]) = ranks /\ Len(rcvd[i]) = ranks

C7_A2ATerminates == [] (A2ARoundsExact /\ Drained) /\ <> AllDone

C7_Witness ==
  /\ AllDone
  /\ ranks = 3
  /\ \A i \in Procs : dist[i] = 3

\* the cells of i's receive slot for itself are as the caller left them
SelfSlotUntouched(i) ==
  \A k \in 0 .. (recvcounts(i)[Me(i)] - 1) : recvbuf[i][recvdispls(i)[Me(i)] + k] = junk

\* C10 (self-delivery in the last round): a process in the round with
\* dist = ranks - 1 has src = dst = its own transport rank, in every earlier
\* round neither is its own rank, and its own send slot reaches its own
\* receive slot in that last round and not before; a ring of one process
\* performs exactly one round, a send to and a receive from itself.
C10_SelfLast ==
  \A i \in Procs :
    /\ (pc[i] = "wait" /\ dist[i] = ranks - 1) => (src[i] = Me(i) /\ dst[i] = Me(i))
    /\ (pc[i] = "wait" /\ dist[i] < ranks - 1) => (src[i] # Me(i) /\ dst[i] # Me(i))
    /\ pc[i] \in { "start", "wait" } => SelfSlotUntouched(i)
    /\ pc[i] = "done" =>
         /\ Delivered(i, i)
         /\ RoundsTo(i, i) = { ranks }
         /\ rcvd[i][ranks] = Me(i)
    /\ (ranks = 1 /\ pc[i] = "done") => (sent[i] = <<Me(i)>> /\ rcvd[i] = <<Me(i)>>)

\* what the loop does instead: the address a process gets from its src is
\* that process's own src, which lies as far from it as it lies from us, so
\* the hop distance doubles: in the round with dist = k the partners are the
\* members 2^k positions away around the ring
RECURSIVE Pow2(_)
Pow2(k) == IF k = 0 THEN 1 ELSE 2 * Pow2(k - 1)

A2APartnersDouble ==
  \A i \in Procs :
    pc[i] = "wait" =>
      /\ src[i] = CommRankOf((i + ranks * Pow2(dist[i]) - Pow2(dist[i])) % ranks, ranks)
      /\ dst[i] = CommRankOf((i + Pow2(dist[i])) % ranks, ranks)

\* ---- lwgrp_ring_split_bin called with a bin that does not exist
\* every member of a ring calls lwgrp_ring_split_bin, my_bin up to num_bins;
\* a larger my_bin stores past the end of the block
InitArgs ==
  /\ ranks \in 1 .. MaxN
  /\ open = FALSE
  /\ mem = [ i \in Procs |-> TRUE ]
  /\ junk \in JunkWords
  /\ my_bin \in [ Procs -> -1 .. NumBins ]
  /\ layout = [ counts |-> "ones", sd |-> "asc", rd |-> "asc" ]
  /\ Fresh

SpecArgs == InitArgs /\ [][Next]_vars

\* the call of process i has returned
Returned(i) == pc[i] = "done"

\* C11: a call with my_bin >= num_bins returns an error and not success,
\* produces no output group, and stores into no cell outside the 2 * num_bins
\* scan cells of its buffers (the cell behind a send buffer is cell 0 of the
\* receive buffer that follows it)
C11_InvalidReported ==
  \A i \in Procs :
     my_bin[i] >= NumBins =>
       /\ Returned(i) => ret[i] # <<LWGRP_SUCCESS>> /\ out[i] = Unset
       /\ pc[i] # "start" /\ left_stamp[i] = 0 => recv_left_bins[i] = FreshBuf

\* ---- lwgrp_ring_split_bin when the scratch block cannot be allocated
\* every member of a ring calls lwgrp_ring_split_bin; lwgrp_malloc returns
\* NULL to some of them
InitOOM ==
  /\ ranks \in 1 .. MaxN
  /\ open = FALSE
  /\ mem \in [ Procs -> BOOLEAN ]
  /\ junk \in JunkWords
  /\ my_bin \in [ Procs -> -1 .. (NumBins - 1) ]
  /\ layout = [ counts |-> "ones", sd |-> "asc", rd |-> "asc" ]
  /\ Fresh

SpecOOM == InitOOM /\ [][Next]_vars

\* C12: a call whose allocation fails returns an error and not success,
\* touches no buffer (it does not die on the store of line 70), takes part in
\* no round, and leaves out as it was
C12_OomReported ==
  \A i \in Procs :
     ~ mem[i] =>
       /\ pc[i] \notin { "fault", "wait" }
       /\ Returned(i) => ret[i] # <<LWGRP_SUCCESS>> /\ out[i] = Unset

\* ---- partners and neighbours by position
\* transport rank of the member h positions to the right of position i around
\* the ring, h positions to the left for a negative h
Around(i, h) == CommRankOf((i + h) % ranks, ranks)

\* C13: at the start of round k of lwgrp_ring_alltoallv_linear, src is the
\* member k+1 positions to the left around the ring and dst the member k+1
\* positions to the right, for every round k = 0 .. N-1
C13_OneHopPerRound ==
  \A i \in Procs :
     pc[i] = "wait" =>
       /\ src[i] = Around(i, - (dist[i] + 1))
       /\ dst[i] = Around(i, dist[i] + 1)

\* ---- lwgrp_ring_split_bin on an open chain
\* every member of an open chain of 1..MaxN processes calls
\* lwgrp_ring_split_bin; what an unwritten word holds is any rank or none
InitOpen ==
  /\ ranks \in 1 .. MaxN
  /\ open = TRUE
  /\ mem = [ i \in Procs |-> TRUE ]
  /\ junk \in { MPI_PROC_NULL } \cup World
  /\ my_bin \in [ Procs -> -1 .. (NumBins - 1) ]
  /\ layout = [ counts |-> "ones", sd |-> "asc", rd |-> "asc" ]
  /\ Fresh

SpecOpen == InitOpen /\ [][Next]_vars

\* transport rank of the member h positions to the right of position i:
\* around a ring, MPI_PROC_NULL beyond the end of an open chain
Beside(i, h) ==
  IF open
  THEN (IF i + h \in Procs THEN CommRankOf(i + h, ranks) ELSE MPI_PROC_NULL)
  ELSE Around(i, h)

\* C14: at the start of the round of lwgrp_ring_split_bin with hop distance
\* d = dist, the left neighbour of a process is the member d positions to its
\* left and its right neighbour the member d positions to its right (around
\* the ring; MPI_PROC_NULL beyond the end of an open chain)
C14_PointerDoubling ==
  \A i \in Procs :
     pc[i] = "wait" =>
       /\ left_rank[i] = Beside(i, - dist[i])
       /\ right_rank[i] = Beside(i, dist[i])

\* ---- the scan state of lwgrp_ring_split_bin
Max(a, b) == IF a >= b THEN a ELSE b
Min(a, b) == IF a <= b THEN a ELSE b

\* processes of input ranks lo..hi that declared bin b
Coloured(b, lo, hi) == { j \in Procs : my_bin[j] = b /\ lo <= j /\ j <= hi }

\* process i has seeded its buffers: dist[i] positions to either side, its own
\* included, are scanned
Scanning(i) == pc[i] \in { "wait", "done" }

\* C15: after the round with hop distance d (dist = 2d) the right-going count
\* for bin b at input rank r is the number of processes coloured b with input
\* rank in [max(0, r-2d+1), r], the left-going count the number in
\* [r, min(N-1, r+2d-1)]; no count exceeds the number of processes coloured b
C15_WindowCounts ==
  \A i \in Procs : \A b \in 0 .. (NumBins - 1) :
     Scanning(i) =>
       /\ send_right_bins[i][2 * b + INDEX_COUNT] =
            Cardinality(Coloured(b, Max(0, i - dist[i] + 1), i))
       /\ send_left_bins[i][2 * b + INDEX_COUNT] =
            Cardinality(Coloured(b, i, Min(ranks - 1, i + dist[i] - 1)))
       /\ send_right_bins[i][2 * b + INDEX_COUNT] <= Cardinality(Coloured(b, 0, ranks - 1))
       /\ send_left_bins[i][2 * b + INDEX_COUNT] <= Cardinality(Coloured(b, 0, ranks - 1))

\* a ring of 3 all of bin 0 has finished its two rounds: the neighbours wrapped
\* around in the second, the head still counts itself only to its left
C15_Witness ==
  /\ AllDone
  /\ ranks = 3
  /\ \A i \in Procs : my_bin[i] = 0
  /\ send_right_bins[0][INDEX_COUNT] = 1
  /\ send_left_bins[0][INDEX_COUNT] = 3
  /\ left_stamp[0] = 2

\* hops h < dist from position i in direction dir (1 right, -1 left) around the
\* ring that end at a process coloured b: the processes of that colour scanned so far
HopsTo(i, dir, b) ==
  { h \in 0 .. (dist[i] - 1) : my_bin[(i + ranks * dist[i] + dir * h) % ranks] = b }

SetMin(S) == CHOOSE x \in S : \A y \in S : x <= y

\* the nearest process coloured b scanned so far in direction dir, MPI_PROC_NULL if none
Nearest(i, dir, b) ==
  IF HopsTo(i, dir, b) = {} THEN MPI_PROC_NULL
  ELSE Around(i, ranks * dist[i] + dir * SetMin(HopsTo(i, dir, b)))

ClosestIsNearest ==
  \A i \in Procs : \A b \in 0 .. (NumBins - 1) :
     Scanning(i) =>
       /\ send_left_bins[i][2 * b + INDEX_CLOSEST] = Nearest(i, 1, b)
       /\ send_right_bins[i][2 * b + INDEX_CLOSEST] = Nearest(i, -1, b)

ClosestKept ==
  \A i \in Procs : \A b \in 0 .. (NumBins - 1) :
     Scanning(i) =>
       /\ send_left_bins[i][2 * b + INDEX_CLOSEST] # MPI_PROC_NULL =>
            send_left_bins'[i][2 * b + INDEX_CLOSEST] = send_left_bins[i][2 * b + INDEX_CLOSEST]
       /\ send_right_bins[i][2 * b + INDEX_CLOSEST] # MPI_PROC_NULL =>
            send_right_bins'[i][2 * b + INDEX_CLOSEST] = send_right_bins[i][2 * b + INDEX_CLOSEST]

\* C16: in every state and for every bin b, the closest cell of the left-going
\* buffer is MPI_PROC_NULL or the rank of the nearest process coloured b at or
\* to the right among those scanned so far (around the ring), the closest cell
\* of the right-going buffer the same to the left; a cell once set keeps its value
C16_ClosestNearest == [] ClosestIsNearest /\ [][ClosestKept]_vars

\* ring of 3 coloured 0,1,0, all returned: the head's right-going closest for
\* bin 1 came in around the ring in the second round
C16_Witness ==
  /\ AllDone
  /\ ranks = 3
  /\ my_bin[0] = 0 /\ my_bin[1] = 1 /\ my_bin[2] = 0
  /\ send_right_bins[0][2 + INDEX_CLOSEST] = CommRankOf(1, ranks)
  /\ send_left_bins[0][2 + INDEX_CLOSEST] = CommRankOf(1, ranks)

\* C17: a process that is the only member of its bin gets an output group of
\* size 1 whose left and right neighbour are both its own transport rank, for
\* every size N of the input
C17_LoneSelfCycle ==
  \A i \in Procs :
     (Returned(i) /\ my_bin[i] >= 0 /\ SameBin(i) = { i }) =>
       /\ out[i].group_size = 1
       /\ out[i].comm_left = in(i).comm_rank
       /\ out[i].comm_right = in(i).comm_rank

\* what the code does give the only member of a bin: itself when N is no power
\* of two (the scan comes back around the ring), MPI_PROC_NULL when N >= 2 is one
LoneNeighbours ==
  \A i \in Procs :
     (Returned(i) /\ my_bin[i] >= 0 /\ SameBin(i) = { i }) =>
       /\ out[i].group_size = 1
       /\ out[i].comm_left = out[i].comm_right
       /\ out[i].comm_left =
            IF ranks > 1 /\ Pow2(CeilLog2(ranks)) = ranks
            THEN MPI_PROC_NULL ELSE in(i).comm_rank

\* ---- message matching in lwgrp_ring_alltoallv_linear
\* position in the ring of the member of transport rank r
PosOf(r) == ranks - r

\* the three receives of the round process i waits in, in the order posted
A2ASources(i) == <<src[i], src[i], dst[i]>>

\* the MPI_Waitall of process i can return
A2AReady(i) == pc[i] = "wait" /\ CanComplete(chan, Me(i), A2ASources(i))

\* the message the k-th receive of process i is matched with
A2AMatch(i, k) == Received(chan, Me(i), A2ASources(i), k, [ data |-> <<>> ])

\* C18: the payload receive of round k is matched by the payload its src
\* posted for this process in its own round k, the src_next receive by the
\* address send of that src to its dst in that round (carrying the src it had),
\* the dst_next receive by the address send of the dst to its src in that round
\* (carrying the dst it had); never by a message of another kind or round,
\* also when src = dst or both are the process itself
C18_Matching ==
  \A i \in Procs :
     A2AReady(i) =>
       /\ A2AMatch(i, 1) = [ kind |-> "data", round |-> dist[i],
                             data |-> Payload(PosOf(src[i]), Me(i)) ]
       /\ A2AMatch(i, 2) = [ kind |-> "src", round |-> dist[i],
                             data |-> <<rcvd[PosOf(src[i])][dist[i] + 1]>> ]
       /\ A2AMatch(i, 3) = [ kind |-> "dst", round |-> dist[i],
                             data |-> <<sent[PosOf(dst[i])][dist[i] + 1]>> ]
       /\ sent[PosOf(src[i])][dist[i] + 1] = Me(i)
       /\ rcvd[PosOf(dst[i])][dist[i] + 1] = Me(i)

\* ring of 2 in its second round: src and dst are the same process, all three
\* receives are matched from one queue
C18_Witness ==
  /\ ranks = 2
  /\ A2AReady(0)
  /\ dist[0] = 1
  /\ src[0] = dst[0]
  /\ Len(chan[<<src[0], Me(0)>>]) >= 3

\* ---- lwgrp_ring_alltoallv_linear on an open chain
\* every member of an open chain of 1..MaxN processes (a chain of one has no
\* neighbour on either side) calls lwgrp_ring_alltoallv_linear; what an
\* unwritten word holds is any rank or none
InitA2AOpen ==
  /\ ranks \in 1 .. MaxN
  /\ open = TRUE
  /\ mem = [ i \in Procs |-> TRUE ]
  /\ junk \in { MPI_PROC_NULL } \cup World
  /\ my_bin = [ i \in Procs |-> 0 ]
  /\ layout \in Layouts
  /\ Fresh

SpecA2AOpen == InitA2AOpen /\ [][NextA2A]_vars

\* transport ranks of the members of the group
Members == { CommRankOf(j, ranks) : j \in Procs }

\* C19: on every descriptor of the data model (head without left neighbour,
\* tail without right neighbour, a chain of one without either) the src and dst
\* that index sendcounts, senddispls, recvcounts and recvdispls in a round are
\* ranks of members, never MPI_PROC_NULL, and from the second round on values
\* that the receives of the round before have written
C19_IndexIsMember ==
  \A i \in Procs :
     pc[i] = "wait" =>
       /\ src[i] \in Members
       /\ dst[i] \in Members
       /\ dist[i] > 0 => rcvd[i][dist[i]] # MPI_PROC_NULL /\ sent[i][dist[i]] # MPI_PROC_NULL

\* C20: what a process reads from recv_left_bins and recv_right_bins in a
\* round (lines 117-157: my_left and my_right, the merged cells, the next
\* left_rank and right_rank) was written by a message received in that round,
\* also when the neighbour is MPI_PROC_NULL at an end of an open chain: after
\* the round with distance d (dist = 2d) both buffers were last written in it
C20_FreshReceives ==
  \A i \in Procs :
     (Scanning(i) /\ dist[i] > 1) =>
       /\ 2 * left_stamp[i] = dist[i]
       /\ 2 * right_stamp[i] = dist[i]
====
